---- MODULE Spec2Model ----
(***************************************************************************)
(* Model of the natural-language-sql service: the SQL sanitizer, the query *)
(* validator, the query endpoints and the delete-with-audit write          *)
(* workflow.                                                               *)
(*                                                                         *)
(* SQL text is a sequence of lexemes.  The text a sequence stands for is   *)
(* its lexemes separated by one blank, except that ";" is written directly *)
(* after the lexeme before it ("DELETE t; DROP t").  Every regular         *)
(* expression and substring test of the source is evaluated on that text.  *)
(***************************************************************************)
EXTENDS Integers, Sequences, FiniteSets, TLC

\* ------------------------------------------------------------------ bounds
MaxLen == 4

\* ------------------------------------------------------- program constants
MAX_QUERY_RESULTS == 1000
DEFAULT_QUERY_LIMIT == 100

\* ------------------------------------------------------------------ state
\* settings: the Settings instance the validator reads
\* request, outcome: the validator call under study
\* revalidated: the result of validating the returned SQL once more
\* served: the last call of a query endpoint
\* plan_run: a /query/natural call that runs a multi-step plan
\* users, audit_log: committed rows of the users and audit_log tables
\* deleted: per user id, the committed DELETEs that removed the row
\* call: per worker, the /write/execute request it is serving
\* orders, order_items: rows of the orders table (order id to user id, 0
\* when there is no such order) and the number of order_items rows per order
\* preview: the /write/preview request being served
\* engines, configs, default_db_id: the fields _engines, _configs and
\* _default_db_id of the connection manager; a dict is the sequence of its
\* items in insertion order
\* engine_count: the engines create_async_engine has built so far
\* saved: the content of the databases.json file
\* manager_call: the last call of the connection manager and the registry
\* it found
\* conns: the connections of one engine's pool
\* ops: per worker, the operation that rents a connection with
\* get_connection and runs statements on it with the executor
VARIABLES settings, request, outcome, revalidated, served, plan_run, users,
          audit_log, deleted, call, orders, order_items, preview, engines,
          configs, default_db_id, engine_count, saved, manager_call, conns,
          ops

varsV == << settings, request, outcome, revalidated >>
varsQ == << served, plan_run >>
varsW == << users, audit_log, deleted, call >>
varsR == << orders, order_items, preview >>
varsM ==
    << engines, configs, default_db_id, engine_count, saved, manager_call >>
varsC == << conns, ops >>
varsRest == << varsR, varsM, varsC >>
vars ==
    << settings, request, outcome, revalidated, served, plan_run, users,
       audit_log, deleted, call, orders, order_items, preview, engines,
       configs, default_db_id, engine_count, saved, manager_call, conns,
       ops >>

\* Settings() with no environment override
DefaultSettings ==
    [MAX_QUERY_RESULTS |-> MAX_QUERY_RESULTS,
     DEFAULT_QUERY_LIMIT |-> DEFAULT_QUERY_LIMIT]

\* ---------------------------------------------------------------- lexemes
\* str.upper() on one lexeme
Upper(tok) ==
    CASE tok = "t" -> "T"
      [] tok = "limit" -> "LIMIT"
      [] tok = "rate_limit" -> "RATE_LIMIT"
      [] tok = "rate_LIMIT" -> "RATE_LIMIT"
      [] tok = "'limit'" -> "'LIMIT'"
      [] tok = "0x1" -> "0X1"
      [] tok = "drop" -> "DROP"
      [] OTHER -> tok

UpperSeq(sql) == [i \in 1..Len(sql) |-> Upper(sql[i])]

\* lexemes (upper-cased) whose first character is a regex word character \w
WordStart(u) == u \notin {";", "(", ")", "'LIMIT'", "--", "/*", "*/"}

\* lexemes (upper-cased) that end with the letters LIMIT, and those that
\* contain them anywhere
EndsWithLIMIT(u) == u \in {"LIMIT", "RATE_LIMIT"}
ContainsLIMIT(u) == u \in {"LIMIT", "RATE_LIMIT", "'LIMIT'"}

\* lexemes that start with decimal digits: the integer the regex group (\d+)
\* captures, and the rest of the lexeme after those digits
StartsWithDigits(u) == u \in {"5", "100", "1000", "5000", "0X1"}
LeadingInt(u) ==
    CASE u = "5" -> 5
      [] u = "100" -> 100
      [] u = "1000" -> 1000
      [] u = "5000" -> 5000
      [] u = "0X1" -> 0
AfterDigits(tok) == IF tok = "0x1" THEN "x1" ELSE ""

\* ------------------------------------------------------------ SQLSanitizer
DDLWords == {"DROP", "CREATE", "ALTER", "TRUNCATE", "RENAME"}
SystemWords == {"EXECUTE", "EXEC", "XP_CMDSHELL", "SP_EXECUTESQL"}
PgFunctions == {"PG_READ_FILE", "PG_LS_DIR", "PG_SLEEP", "LO_IMPORT", "LO_EXPORT"}

BLOCKED_PATTERNS ==
    << "DDL operation", "System command", "SQL comment", "Multi-line comment",
       "Multiple statements", "UNION injection", "Information schema access",
       "PostgreSQL dangerous function", "MySQL dangerous function",
       "Hex encoding", "Unicode encoding" >>

lenient_patterns ==
    {"SQL comment", "Multi-line comment", "Hex encoding", "Unicode encoding"}

\* A lexeme is followed by white space unless it is the last one or a ";"
\* is attached to it.
FollowedBySpace(u, i) == i < Len(u) /\ u[i + 1] # ";"

\* re.search(pattern, normalized_sql, re.IGNORECASE) for one blocked pattern
PatternFound(description, u) ==
    CASE description = "DDL operation" ->
            \E i \in 1..Len(u) : u[i] \in DDLWords /\ FollowedBySpace(u, i)
      [] description = "System command" ->
            \E i \in 1..Len(u) : u[i] \in SystemWords /\ i < Len(u) /\ u[i + 1] = "("
      [] description = "SQL comment" ->
            \E i \in 1..Len(u) : u[i] = "--"
      [] description = "Multi-line comment" ->
            \E i \in 1..Len(u) : \E j \in (i + 1)..Len(u) : u[i] = "/*" /\ u[j] = "*/"
      [] description = "Multiple statements" ->
            \E i \in 1..Len(u) : u[i] = ";" /\ i < Len(u) /\ WordStart(u[i + 1])
      [] description = "UNION injection" ->
            \E i \in 1..Len(u) :
                /\ u[i] = "UNION"
                /\ \E k \in {i + 1, i + 2} :
                      /\ k <= Len(u) /\ u[k] = "SELECT"
                      /\ (k = i + 2 => u[i + 1] = "ALL")
                      /\ ~ \E j \in (k + 2)..Len(u) :
                              /\ u[k + 1] # ";"
                              /\ u[j] = "FROM" /\ j < Len(u) /\ u[j + 1] = "("
      [] description = "Information schema access" ->
            \E i \in 1..Len(u) : u[i] = "INFORMATION_SCHEMA"
      [] description = "PostgreSQL dangerous function" ->
            \E i \in 1..Len(u) : u[i] \in PgFunctions /\ i < Len(u) /\ u[i + 1] = "("
      [] description = "MySQL dangerous function" ->
            \E i \in 1..Len(u) :
                \/ u[i] = "LOAD_FILE"
                \/ u[i] = "INTO" /\ i < Len(u) /\ u[i + 1] \in {"OUTFILE", "DUMPFILE"}
      [] description = "Hex encoding" ->
            \E i \in 1..Len(u) : u[i] = "0X1"
      [] description = "Unicode encoding" ->
            \E i \in 1..Len(u) : u[i] = "\\u0041"

\* whether is_safe skips a pattern before searching for it
PatternSkipped(description, allow_write, strict_mode) ==
    \/ allow_write /\ description = "DML operation"
    \/ ~strict_mode /\ description \in lenient_patterns

\* SQLSanitizer.is_safe: the list of violations, in pattern order
is_safe(sql, allow_write, strict_mode) ==
    LET u == UpperSeq(sql)
        Hit(description) ==
            /\ ~PatternSkipped(description, allow_write, strict_mode)
            /\ PatternFound(description, u)
    IN  SelectSeq(BLOCKED_PATTERNS, Hit)

\* SQLSanitizer.validate_and_raise: TRUE when SQLInjectionAttempt is raised
validate_and_raise(sql, allow_write, strict_mode) ==
    is_safe(sql, allow_write, strict_mode) # << >>

\* ---------------------------------------------------------------- sqlparse
\* token type sqlparse's lexer gives a lexeme ("Name" lexemes are wrapped
\* into an Identifier group, whose ttype is None)
ttype(tok) ==
    LET u == Upper(tok)
    IN  CASE u \in {"SELECT", "INSERT", "UPDATE", "DELETE"} -> "DML"
          [] u \in {"DROP", "CREATE", "ALTER", "TRUNCATE"} -> "DDL"
          [] u = "WITH" -> "CTE"
          [] u \in {"LIMIT", "FROM", "GRANT", "UNION"} -> "Keyword"
          [] u \in {";", "(", ")"} -> "Punctuation"
          [] StartsWithDigits(u) -> "Number"
          [] u = "'LIMIT'" -> "String"
          [] OTHER -> "None"

\* StatementSplitter._change_splitlevel: parentheses open and close a level
change_splitlevel(tok) ==
    IF tok = "(" THEN 1 ELSE IF tok = ")" THEN -1 ELSE 0

\* StatementSplitter.process from lexeme i on: a statement ends at a ";"
\* met at level <= 0 and is yielded when the next lexeme arrives
RECURSIVE SplitFrom(_, _, _, _, _)
SplitFrom(toks, i, level, cur, consume_ws) ==
    IF i > Len(toks)
    THEN IF cur # << >> THEN << cur >> ELSE << >>
    ELSE LET level0 == IF consume_ws THEN 0 ELSE level
             cur0 == IF consume_ws THEN << >> ELSE cur
             level1 == level0 + change_splitlevel(toks[i])
         IN  (IF consume_ws THEN << cur >> ELSE << >>)
             \o SplitFrom(toks, i + 1, level1, Append(cur0, toks[i]),
                          level1 <= 0 /\ toks[i] = ";")

\* sqlparse.parse: the statements of the text
parse(sql) == SplitFrom(sql, 1, 0, << >>, FALSE)

\* index of the ")" that closes the "(" at position i, 0 when there is none
RECURSIVE MatchFrom(_, _, _)
MatchFrom(s, j, depth) ==
    IF j > Len(s) THEN 0
    ELSE LET d == depth + change_splitlevel(s[j])
         IN  IF d = 0 THEN j ELSE MatchFrom(s, j + 1, d)

\* statement.tokens: the top-level tokens of a statement after grouping, as
\* [ttype, value]; a balanced parenthesis and a name are groups (ttype None)
RECURSIVE TokensFrom(_, _)
TokensFrom(s, i) ==
    IF i > Len(s) THEN << >>
    ELSE IF s[i] = "(" /\ MatchFrom(s, i, 0) # 0
         THEN << [ttype |-> "None", value |-> "(...)"] >>
              \o TokensFrom(s, MatchFrom(s, i, 0) + 1)
         ELSE << [ttype |-> ttype(s[i]), value |-> s[i]] >>
              \o TokensFrom(s, i + 1)

tokens(statement) == TokensFrom(statement, 1)

\* Statement.get_type
get_type(statement) ==
    LET ts == tokens(statement)
    IN  IF ts = << >> THEN "UNKNOWN"
        ELSE IF ts[1].ttype \in {"DML", "DDL"} THEN Upper(ts[1].value)
        ELSE IF ts[1].ttype = "CTE"
             THEN IF \E i \in 1..Len(ts) : ts[i].ttype = "DML"
                  THEN Upper(ts[CHOOSE i \in 1..Len(ts) :
                                   /\ ts[i].ttype = "DML"
                                   /\ \A j \in 1..(i - 1) : ts[j].ttype # "DML"].value)
                  ELSE "UNKNOWN"
        ELSE "UNKNOWN"

\* ---------------------------------------------------------- QueryValidator
\* QueryValidator._is_select_statement
RECURSIVE IsSelectFrom(_, _, _)
IsSelectFrom(statement, ts, i) ==
    IF i > Len(ts) THEN get_type(statement) = "SELECT"
    ELSE IF ts[i].ttype = "DML" THEN Upper(ts[i].value) = "SELECT"
    ELSE IF ts[i].ttype # "None"
         THEN IF Upper(ts[i].value) = "WITH"
              THEN \E k \in 1..Len(statement) : Upper(statement[k]) = "SELECT"
              ELSE FALSE
    ELSE IsSelectFrom(statement, ts, i + 1)

is_select_statement(statement) == IsSelectFrom(statement, tokens(statement), 1)

\* QueryValidator._get_statement_type
get_statement_type(statement) ==
    LET ts == tokens(statement)
        hits == {i \in 1..Len(ts) : ts[i].ttype \in {"DML", "DDL"}}
    IN  IF hits = {} THEN "UNKNOWN"
        ELSE Upper(ts[CHOOSE i \in hits : \A j \in hits : i <= j].value)

\* str.rstrip(';')
RECURSIVE rstrip_semicolon(_)
rstrip_semicolon(sql) ==
    IF sql # << >> /\ sql[Len(sql)] = ";"
    THEN rstrip_semicolon(SubSeq(sql, 1, Len(sql) - 1))
    ELSE sql

\* positions where the regex LIMIT\s+(\d+) matches: a lexeme ending in LIMIT
\* followed by a lexeme that starts with digits
LimitMatches(sql) ==
    {i \in 1..(Len(sql) - 1) :
        EndsWithLIMIT(Upper(sql[i])) /\ StartsWithDigits(Upper(sql[i + 1]))}

\* what re.sub writes over a matched lexeme that ends in LIMIT
LimitWordReplaced(tok) ==
    IF Upper(tok) = "RATE_LIMIT" THEN "rate_LIMIT" ELSE "LIMIT"

\* QueryValidator._enforce_limit; the events it logs are in .log
enforce_limit(sql) ==
    LET u == UpperSeq(sql)
        m == LimitMatches(sql)
        first == CHOOSE i \in m : \A j \in m : i <= j
        existing_limit == LeadingInt(u[first + 1])
        replaced ==
            [i \in 1..Len(sql) |->
                IF i \in m THEN LimitWordReplaced(sql[i])
                ELSE IF i > 1 /\ (i - 1) \in m
                     THEN ToString(settings.MAX_QUERY_RESULTS)
                          \o AfterDigits(sql[i])
                     ELSE sql[i]]
    IN  IF \E i \in 1..Len(u) : ContainsLIMIT(u[i])
        THEN IF m # {} /\ existing_limit > settings.MAX_QUERY_RESULTS
             THEN [sql |-> replaced, log |-> {"limit_exceeded_modified"}]
             ELSE [sql |-> sql, log |-> {}]
        ELSE [sql |-> rstrip_semicolon(sql)
                        \o << "LIMIT", ToString(settings.DEFAULT_QUERY_LIMIT) >>,
              log |-> {"limit_added"}]

\* str.lower() on one word of the question
Lower(word) == IF word = "Add" THEN "add" ELSE word

insert_keywords == {"add", "create", "insert", "new", "register"}
delete_keywords == {"delete", "remove"}
update_keywords == {"update", "change", "modify", "set", "edit"}

\* any(keyword in question_lower ...): a keyword is one of the words, or
\* (for 'drop user') two words in a row
HasKeyword(question, keywords) ==
    \E i \in 1..Len(question) : Lower(question[i]) \in keywords

user_wants_delete(question) ==
    \/ HasKeyword(question, delete_keywords)
    \/ \E i \in 1..(Len(question) - 1) :
          Lower(question[i]) = "drop" /\ Lower(question[i + 1]) = "user"

\* sql.strip().upper().startswith(word)
StartsWith(sql, word) == sql # << >> /\ Upper(sql[1]) = word

\* QueryValidator.validate_operation_intent: whether it raises
\* QueryValidationError, and what it logs
validate_operation_intent(sql, original_question) ==
    LET is_insert == StartsWith(sql, "INSERT")
        is_delete == StartsWith(sql, "DELETE")
        user_wants_insert == HasKeyword(original_question, insert_keywords)
        user_wants_update == HasKeyword(original_question, update_keywords)
    IN  IF user_wants_insert /\ is_delete
        THEN [raised |-> TRUE, log |-> {"critical_operation_mismatch"}]
        ELSE IF user_wants_delete(original_question) /\ is_insert
        THEN [raised |-> TRUE, log |-> {"critical_operation_mismatch"}]
        ELSE IF user_wants_update /\ (is_insert \/ is_delete)
        THEN [raised |-> FALSE, log |-> {"operation_mismatch"}]
        ELSE [raised |-> FALSE, log |-> {}]

\* the outcome of a call that raises the exception with this code
Raise(code, log) == [status |-> code, sql |-> << >>, log |-> log]

\* Step 2 of validate: the intent check and what becomes of its exception
intent_step(sql, read_only, original_question, strict_validation) ==
    IF strict_validation /\ original_question # << >> /\ ~read_only
    THEN LET r == validate_operation_intent(sql, original_question)
         IN  [raised |-> FALSE,
              log |-> r.log \cup (IF r.raised THEN {"operation_intent_mismatch"}
                                              ELSE {})]
    ELSE [raised |-> FALSE, log |-> {}]

\* Step 3 of validate: the sanitizer and what becomes of its exception
sanitize_step(sql, read_only) ==
    IF validate_and_raise(sql, ~read_only, read_only)
    THEN IF ~read_only
         THEN [raised |-> FALSE, log |-> {"sql_validation_warning"}]
         ELSE [raised |-> TRUE, log |-> {}]
    ELSE [raised |-> FALSE, log |-> {}]

\* Step 5 with the count compared one too high
multiple_statements_off_by_one(parsed) == Len(parsed) > 2

\* Step 5 of validate: more than one parsed statement is rejected
multiple_statements(parsed) == Len(parsed) > 1

\* QueryValidator.validate: status "ok" and the validated SQL, or the code of
\* the exception raised; .log is what was logged on the way
validate(sql, read_only, original_question, strict_validation) ==
    IF sql = << >>
    THEN Raise("QUERY_VALIDATION_ERROR", {})
    ELSE
    LET intent == intent_step(sql, read_only, original_question, strict_validation)
        sane == sanitize_step(sql, read_only)
        parsed == parse(sql)
        statement == parsed[1]
        log3 == intent.log \cup sane.log
        log4 == log3 \cup (IF ~read_only /\ ~is_select_statement(statement)
                           THEN {"write_operation_allowed"} ELSE {})
        limited == enforce_limit(sql)
    IN  IF intent.raised
        THEN Raise("QUERY_VALIDATION_ERROR", intent.log)
        ELSE IF sane.raised
        THEN Raise("SQL_INJECTION_ATTEMPT", log3)
        ELSE IF parsed = << >>
        THEN Raise("QUERY_SYNTAX_ERROR", log3)
        ELSE IF multiple_statements(parsed)
        THEN Raise("QUERY_VALIDATION_ERROR", log4)
        ELSE IF is_select_statement(statement) /\ read_only
        THEN [status |-> "ok", sql |-> limited.sql, log |-> log4 \cup limited.log]
        ELSE [status |-> "ok", sql |-> sql, log |-> log4]

\* =========================================================================
\* Validator specification: every request of the bounded input set is
\* validated once.
\* =========================================================================
SeqsUpTo(S, n) == UNION {[1..k -> S] : k \in 0..n}

\* lexemes of the general inputs, and of the tails of the SELECT inputs
TokV == {"SELECT", "DELETE", "INSERT", "UPDATE", "DROP", "GRANT", ";", "(", ")", "t", "0x1"}
TokL == {"t", "rate_limit", "'limit'", "LIMIT", "limit", "5", "5000", ";"}

SqlInputs ==
    SeqsUpTo(TokV, MaxLen)
    \cup {<< "SELECT" >> \o s : s \in SeqsUpTo(TokL, MaxLen - 1)}

NoQuestion == << >>
Questions == {NoQuestion, << "Add", "user", "bob" >>, << "remove", "user", "bob" >>}

Requests ==
    [sql : SqlInputs, read_only : BOOLEAN, question : Questions,
     strict_validation : BOOLEAN]

Pending == [status |-> "pending", sql |-> << >>, log |-> {}]

\* ------------------------------------------------------------------ bounds
NumWorkers == 2
NumUsers == 1

Workers == 1..NumWorkers
UserIds == 1..NumUsers
\* ids a request can name: the rows of users and one id that has no row
TargetIds == 1..(NumUsers + 1)

NoRequest ==
    [sql |-> << >>, read_only |-> TRUE, question |-> NoQuestion,
     strict_validation |-> FALSE]

NotServed ==
    [op |-> "none", question |-> NoQuestion,
     options |-> [execute |-> TRUE, read_only |-> FALSE, confirm_delete |-> TRUE],
     generated |-> << >>, executor_calls |-> << >>, shape |-> "none",
     raised |-> "none",
     code |-> "none", generated_sql |-> << >>, committed |-> FALSE]

NoImpact ==
    [user_id |-> 0, orders_count |-> 0, order_items_count |-> 0,
     total_records |-> 0, order_details |-> {}]

IdleCall ==
    [pc |-> "idle", user_id |-> 1, confirmed |-> FALSE, selected |-> FALSE,
     user_row |-> FALSE, audit_written |-> FALSE, row_deleted |-> FALSE,
     deleted_count |-> 0, issued |-> {}, status |-> "none",
     impact |-> NoImpact]

\* bound of the rows of the users and orders tables a preview can meet, and
\* of the order_items rows of one order
MaxRows == 2
MaxItems == 1

NoPreview ==
    [pc |-> "none", question |-> NoQuestion, batch |-> FALSE,
     transaction |-> "none", where_clause |-> {}, matches |-> {},
     todo |-> {}, impact |-> NoImpact, total_orders |-> 0, total_items |-> 0,
     user_impacts |-> {}, sent |-> << >>,
     result |-> [phase |-> "none", matches |-> {}, has_impact |-> FALSE,
                 impact |-> NoImpact, requires_confirmation |-> FALSE,
                 total_records |-> 0, code |-> "none"]]

\* the state of the parts a specification does not exercise
QuietV ==
    /\ settings = DefaultSettings
    /\ request = NoRequest
    /\ outcome = Pending
    /\ revalidated = Pending
NoPlanRun ==
    [pc |-> "none", question |-> NoQuestion, options |-> NotServed.options,
     steps |-> << >>, pos |-> 0, query_steps |-> << >>,
     executor_calls |-> << >>, code |-> "none", generated_sql |-> << >>,
     execution_result |-> [step |-> 0, count_positive |-> FALSE],
     committed |-> {}]

QuietQ == served = NotServed /\ plan_run = NoPlanRun
QuietR ==
    /\ orders = [o \in 1..MaxRows |-> 0]
    /\ order_items = [o \in 1..MaxRows |-> 0]
    /\ preview = NoPreview

\* Optional[str] None
None == "None"

NoFile == [default_db_id |-> None, databases |-> << >>]

Registry(e, c, d) == [engines |-> e, configs |-> c, default_db_id |-> d]

NoManagerCall ==
    [op |-> "none", db_id |-> None, raised |-> "none",
     before |-> Registry(<< >>, << >>, None)]

QuietM ==
    /\ engines = << >>
    /\ configs = << >>
    /\ default_db_id = None
    /\ engine_count = 0
    /\ saved = NoFile
    /\ manager_call = NoManagerCall

\* bound of the connections the pool of one engine opens
NumConns == 2

ConnIds == 1..NumConns

\* a connection the pool has not opened yet
NoConn == [state |-> "unopened", timed_out |-> FALSE, reused |-> FALSE]

NoOp ==
    [pc |-> "idle", conn |-> 0, db |-> "none", raised |-> "none",
     code |-> "none", discarded_before |-> {}]

QuietC ==
    /\ conns = [c \in ConnIds |-> NoConn]
    /\ ops = [w \in Workers |-> NoOp]

QuietRest == QuietR /\ QuietM /\ QuietC

QuietW ==
    /\ users = UserIds
    /\ audit_log = [id \in TargetIds |-> 0]
    /\ deleted = [id \in TargetIds |-> 0]
    /\ call = [w \in Workers |-> IdleCall]

InitV ==
    /\ settings = DefaultSettings
    /\ request \in Requests
    /\ outcome = Pending
    /\ revalidated = Pending
    /\ QuietQ /\ QuietW /\ QuietRest

\* one call of QueryValidator.validate
Validate ==
    /\ outcome = Pending
    /\ outcome' = validate(request.sql, request.read_only, request.question,
                           request.strict_validation)
    /\ UNCHANGED << settings, request, revalidated, varsQ, varsW, varsRest >>

NextV == Validate

SpecV == InitV /\ [][NextV]_vars

\* -------------------------------------------------------------------------
\* Properties of the validator
\* -------------------------------------------------------------------------
Validated == outcome # Pending
Rejected == outcome.status # "ok" /\ outcome.sql = << >>

\* the text is one statement: a statement word and the table it names
SingleStatement(sql) ==
    Len(sql) >= 2 /\ sql[2] = "t" /\ Len(parse(sql)) = 1
NonSelectWords == {"INSERT", "UPDATE", "DELETE", "DROP", "GRANT"}

\* C1: with read_only = true, validate rejects every single statement whose
\* type is not SELECT and returns no SQL for it.
C1_ReadOnlyRejectsNonSelect ==
    (/\ Validated
     /\ request.read_only
     /\ SingleStatement(request.sql)
     /\ Upper(request.sql[1]) \in NonSelectWords)
    => Rejected

\* a ";" that is not inside an open parenthesis, with a lexeme other than
\* ";" somewhere after it
SeparatorThenStatement(sql) ==
    \E i \in 1..Len(sql) :
        /\ sql[i] = ";"
        /\ \A j \in 1..(i - 1) :
              sql[j] = "(" => MatchFrom(sql, j, 0) \in 1..(i - 1)
        /\ \E k \in (i + 1)..Len(sql) : sql[k] # ";"

C3_FatalIntentMismatchBlocks ==
    (/\ Validated
     /\ request.question # NoQuestion
     /\ SingleStatement(request.sql)
     /\ \/ /\ HasKeyword(request.question, insert_keywords)
           /\ StartsWith(request.sql, "DELETE")
        \/ /\ user_wants_delete(request.question)
           /\ StartsWith(request.sql, "INSERT"))
    => /\ outcome.status = "QUERY_VALIDATION_ERROR"
       /\ Rejected

\* C4: a statement with a DDL keyword followed by white space is reported by
\* the sanitizer for every allow_write and strict_mode, and validate never
\* returns it, for either value of read_only.
C4_DDLAlwaysBlocked ==
    (/\ Validated
     /\ SingleStatement(request.sql)
     /\ PatternFound("DDL operation", UpperSeq(request.sql)))
    => /\ \A allow_write, strict_mode \in BOOLEAN :
             is_safe(request.sql, allow_write, strict_mode) # << >>
       /\ Rejected

\* C10: for an accepted SELECT with no LIMIT clause, validate (read_only)
\* returns the statement with LIMIT DEFAULT_QUERY_LIMIT appended, also
\* when the letters LIMIT occur inside an identifier or a string literal.
C10_DefaultLimitAppended ==
    (/\ Validated
     /\ request.read_only
     /\ outcome.status = "ok"
     /\ SingleStatement(request.sql)
     /\ StartsWith(request.sql, "SELECT")
     /\ \A i \in 1..Len(request.sql) : Upper(request.sql[i]) # "LIMIT")
    => outcome.sql = rstrip_semicolon(request.sql)
                     \o << "LIMIT", ToString(DEFAULT_QUERY_LIMIT) >>

\* =========================================================================
\* LIMIT specification: SELECT statements with and without LIMIT clauses are
\* validated, and the returned SQL is validated once more, under every
\* configuration the Settings validators accept.
\* =========================================================================
\* Settings.validate_max_query_results: the value is accepted
validate_max_query_results(v) == v > 0 /\ v <= 100000

\* configurations: DEFAULT_QUERY_LIMIT has no validator
ConfiguredSettings ==
    {s \in [MAX_QUERY_RESULTS : {0, 5, 1000},
            DEFAULT_QUERY_LIMIT : {5, 100, 5000}] :
        validate_max_query_results(s.MAX_QUERY_RESULTS)}

LimitClauses ==
    {<< >>} \cup {<< k, n >> : k \in {"LIMIT", "limit"}, n \in {"5", "1000", "5000"}}

\* SELECT ... FROM (SELECT ... <inner>) <outer>
NestedSelects ==
    {<< "SELECT", "t", "(", "SELECT", "t" >> \o inner \o << ")" >> \o outer :
        inner \in LimitClauses, outer \in LimitClauses}

LimitRequests ==
    [sql : {<< "SELECT" >> \o s : s \in SeqsUpTo(TokL, MaxLen - 1)}
           \cup NestedSelects,
     read_only : BOOLEAN, question : {NoQuestion}, strict_validation : {FALSE}]

InitL ==
    /\ settings \in ConfiguredSettings
    /\ request \in LimitRequests
    /\ outcome = Pending
    /\ revalidated = Pending
    /\ QuietQ /\ QuietW /\ QuietRest

\* validate is called on the SQL that validate returned
Revalidate ==
    /\ outcome.status = "ok"
    /\ revalidated = Pending
    /\ revalidated' = validate(outcome.sql, request.read_only, request.question,
                               request.strict_validation)
    /\ UNCHANGED << settings, request, outcome, varsQ, varsW, varsRest >>

NextL == Validate \/ Revalidate

SpecL == InitL /\ [][NextL]_vars

\* a LIMIT clause: the keyword followed by an integer
LimitClauseAt(sql, i) ==
    /\ i < Len(sql)
    /\ Upper(sql[i]) = "LIMIT"
    /\ StartsWithDigits(Upper(sql[i + 1]))
    /\ AfterDigits(sql[i + 1]) = ""

AcceptedSelect ==
    /\ Validated
    /\ request.read_only
    /\ outcome.status = "ok"
    /\ SingleStatement(request.sql)
    /\ StartsWith(request.sql, "SELECT")

\* C11: in the SQL returned for a SELECT validated with read_only, every
\* LIMIT clause whose value is above MAX_QUERY_RESULTS has the value
\* MAX_QUERY_RESULTS, and every other LIMIT clause keeps its value.
C11_LimitClamped ==
    AcceptedSelect
    => /\ \A i \in 1..Len(request.sql) :
             LimitClauseAt(request.sql, i)
             => /\ Len(outcome.sql) = Len(request.sql)
                /\ outcome.sql[i + 1] =
                      IF LeadingInt(request.sql[i + 1]) > settings.MAX_QUERY_RESULTS
                      THEN ToString(settings.MAX_QUERY_RESULTS)
                      ELSE request.sql[i + 1]

\* C12: validating the SQL returned for an accepted SELECT (read_only)
\* succeeds and returns the same SQL, under every configuration.
C12_LimitIdempotent ==
    (AcceptedSelect /\ revalidated # Pending)
    => /\ revalidated.status = "ok"
       /\ revalidated.sql = outcome.sql

\* =========================================================================
\* Statement types: the validator on statements that open with WITH or
\* with a parenthesis.
\* =========================================================================
\* WITH x AS ( ... ), the head of a common table expression
CteHeads ==
    { << "WITH", "x", "AS", "(", "SELECT", "t", ")" >>,
      << "WITH", "x", "AS", "(", "SELECT", "t", "LIMIT", "5000", ")" >>,
      << "WITH", "x", "AS", "(", "DELETE", "t", ")" >> }

Verbs == {"SELECT", "INSERT", "UPDATE", "DELETE"}

TypedStatements ==
    {<< verb, "t" >> : verb \in Verbs}
    \cup {head \o << verb, "t" >> : head \in CteHeads, verb \in Verbs}
    \cup {<< "(", "SELECT", "t", ")" >>,
          << "(", "SELECT", "t", ")", "UNION", "ALL", "(", "SELECT", "t", ")" >>}

TypedRequests ==
    [sql : TypedStatements, read_only : BOOLEAN, question : Questions,
     strict_validation : BOOLEAN]

InitT ==
    /\ settings = DefaultSettings
    /\ request \in TypedRequests
    /\ outcome = Pending
    /\ revalidated = Pending
    /\ QuietQ /\ QuietW /\ QuietRest

NextT == Validate \/ Revalidate

SpecT == InitT /\ [][NextT]_vars

\* the statement is an INSERT, UPDATE or DELETE, plain or after its WITH
\* clause
WriteStatement(sql) ==
    get_type(parse(sql)[1]) \in {"INSERT", "UPDATE", "DELETE"}

\* C23: a write statement, a WITH ... INSERT/UPDATE/DELETE whose body has
\* the word SELECT included, is not classified as SELECT by the validator
\* and is returned with no LIMIT appended or altered, for either value of
\* read_only.
C23_WriteNeverLimited ==
    (outcome.status = "ok" /\ WriteStatement(request.sql))
    => /\ ~is_select_statement(parse(request.sql)[1])
       /\ outcome.sql = request.sql

\* =========================================================================
\* Query endpoints: /query/natural (single-statement path) and /query/sql
\* =========================================================================
\* QueryExecutor._execute_query: the statement is a write when its text
\* starts with DELETE, UPDATE or INSERT
is_write_operation(sql) ==
    \E op \in {"DELETE", "UPDATE", "INSERT"} : StartsWith(sql, op)

\* QueryExecutor._execute_query: what it returns for a statement that ran,
\* the one synthetic row with affected_rows, or result.fetchall() as one
\* dictionary per row
result_shape(sql) == IF is_write_operation(sql) THEN "summary" ELSE "fetchall"

\* what the database does with a statement: it runs, it runs past the
\* timeout, or the driver fails
DbOutcomes == {"ok", "timeout", "error"}

\* QueryExecutor.execute with the statement awaited without wait_for
execute_without_timeout(sql, db) ==
    CASE db = "error" -> "QUERY_EXECUTION_ERROR"
      [] OTHER -> "ok"

\* QueryExecutor.execute: the code of the exception raised, or "ok"
execute(sql, db) ==
    CASE db = "timeout" -> "QUERY_TIMEOUT"
      [] db = "error" -> "QUERY_EXECUTION_ERROR"
      [] OTHER -> "ok"

\* get_connection with a transaction that commits however the with-block
\* is left
get_connection_exit_committing(code) ==
    IF code = "ok"
    THEN [code |-> "ok", committed |-> TRUE]
    ELSE [code |-> "DATABASE_CONNECTION_ERROR", committed |-> TRUE]

\* DatabaseConnectionManager.get_connection: an exception that leaves the
\* with-block rolls the transaction back and is raised again as
\* DatabaseConnectionError
get_connection_exit(code) ==
    IF code = "ok"
    THEN [code |-> "ok", committed |-> TRUE]
    ELSE [code |-> "DATABASE_CONNECTION_ERROR", committed |-> FALSE]

\* statements the SQL generator can return for a question
LLMOutputs ==
    { << "SELECT", "t" >>, << "SELECT", "t", "LIMIT", "5000" >>,
      << "DELETE", "t" >>, << "INSERT", "t" >>, << "UPDATE", "t" >>,
      << "DROP", "t" >>, << "DELETE", "t", ";", "DROP", "t" >>,
      << "WITH", "x", "AS", "(", "SELECT", "t", ")", "SELECT", "t" >>,
      << "WITH", "x", "AS", "(", "SELECT", "t", ")", "DELETE", "t" >>,
      << "(", "SELECT", "t", ")" >> }

QueryOptions ==
    [execute : BOOLEAN, read_only : BOOLEAN, confirm_delete : BOOLEAN]

\* natural_language_query, the branch taken when the planner's analysis
\* does not require dependency resolution: generate, validate, execute
NaturalLanguageQuery(question, options, sql, db) ==
    LET v == validate(sql, options.read_only, question, FALSE)
        run == v.status = "ok" /\ options.execute
        e == IF run THEN execute(v.sql, db) ELSE "ok"
        inside == IF v.status # "ok" THEN v.status ELSE e
        exit == get_connection_exit(inside)
    IN  /\ served' =
              [op |-> "natural", question |-> question, options |-> options,
               generated |-> sql,
               executor_calls |-> IF run THEN << v.sql >> ELSE << >>,
               shape |-> IF run /\ e = "ok" THEN result_shape(v.sql)
                         ELSE "none",
               raised |-> inside,
               code |-> exit.code,
               generated_sql |-> IF exit.code = "ok" THEN v.sql ELSE << >>,
               committed |-> exit.committed /\ run]
        /\ UNCHANGED << plan_run, varsV, varsW, varsRest >>

\* direct_sql_query: validate with the defaults (read_only = True, no
\* question), then execute on a connection
DirectSqlQuery(sql, db) ==
    LET v == validate(sql, TRUE, NoQuestion, FALSE)
        run == v.status = "ok"
        exit == get_connection_exit(IF run THEN execute(v.sql, db) ELSE "ok")
    IN  /\ served' =
              [op |-> "direct", question |-> NoQuestion,
               options |-> NotServed.options,
               generated |-> sql,
               executor_calls |-> IF run THEN << v.sql >> ELSE << >>,
               shape |-> IF run /\ execute(v.sql, db) = "ok"
                         THEN result_shape(v.sql) ELSE "none",
               raised |-> IF run THEN execute(v.sql, db) ELSE v.status,
               code |-> IF run THEN exit.code ELSE v.status,
               generated_sql |-> IF run /\ exit.code = "ok" THEN v.sql ELSE << >>,
               committed |-> run /\ exit.committed]
        /\ UNCHANGED << plan_run, varsV, varsW, varsRest >>

InitQ == QuietV /\ QuietQ /\ QuietW /\ QuietRest

NextQ ==
    \/ \E question \in Questions \ {NoQuestion}, options \in QueryOptions,
          sql \in LLMOutputs, db \in DbOutcomes :
          NaturalLanguageQuery(question, options, sql, db)
    \/ \E sql \in LLMOutputs, db \in DbOutcomes : DirectSqlQuery(sql, db)

SpecQ == InitQ /\ [][NextQ]_vars

\* C6: in the single-statement natural-language path the Executor is called
\* on a validated DELETE only if options.confirm_delete is true.
C6_DeleteNeedsConfirmation ==
    (/\ served.op = "natural"
     /\ \E i \in 1..Len(served.executor_calls) :
           StartsWith(served.executor_calls[i], "DELETE"))
    => served.options.confirm_delete

\* C19: when the Validator, the Sanitizer or the Executor raises an error
\* during a natural-language or direct-SQL operation, the error the
\* operation returns carries the code of the error raised.
C19_ErrorCodeSurfaced ==
    (served.op # "none" /\ served.raised # "ok") => served.code = served.raised

\* C27: for a statement the validator accepted and the executor ran, the
\* executor returns the synthetic summary row when the validator's statement
\* type is INSERT, UPDATE or DELETE, a WITH clause or a parenthesis before
\* the verb included, and the fetched rows when the validator treats the
\* statement as SELECT.
C27_ExecutorAgreesWithValidator ==
    served.shape # "none"
    => LET sql == served.executor_calls[1]
           statement == parse(sql)[1]
       IN  /\ get_statement_type(statement) \in {"INSERT", "UPDATE", "DELETE"}
              => served.shape = "summary"
           /\ is_select_statement(statement) => served.shape = "fetchall"

\* =========================================================================
\* Plan runner: the branch of /query/natural taken when the planner's
\* analysis requires dependency resolution.  The plan is the planner's
\* output; every iteration of the loop over its steps is one step here.
\* =========================================================================
MaxSteps == 3

\* SQL of an existence check (a COUNT probe) and of the other steps
CountProbe == << "SELECT", "COUNT", "t" >>
StepSql ==
    { << "INSERT", "t" >>, << "SELECT", "t" >>,
      << "INSERT", "t", ";", "DROP", "t" >> }

\* QueryStep of a QueryPlan; step_number is the 1-based position
PlanSteps ==
    [sql : {CountProbe}, check_existence : {TRUE}, depends_on_previous : BOOLEAN]
    \cup [sql : StepSql, check_existence : {FALSE}, depends_on_previous : BOOLEAN]

Plans == UNION {[1..n -> PlanSteps] : n \in 1..MaxSteps}

PlanOptions ==
    [execute : BOOLEAN, read_only : BOOLEAN, confirm_delete : {TRUE}]

\* execution_result of a QueryStep that was not executed
NoResult == [step |-> 0, count_positive |-> FALSE]

\* the ExecutionResult of the step at position k; count_positive: its first
\* row has a count above zero
ResultOf(k, count_positive) == [step |-> k, count_positive |-> count_positive]

\* QueryStep(...) appended to query_steps_list
QueryStep(step_number, sql, execution_result, skipped) ==
    [step_number |-> step_number, sql |-> sql,
     execution_result |-> execution_result, skipped |-> skipped,
     skip_reason |-> IF skipped THEN "Entity already exists" ELSE "None"]

\* the steps whose statement, run by the Executor, wrote to the database
WrittenSteps(calls) ==
    {calls[i].step : i \in {j \in 1..Len(calls) : is_write_operation(calls[j].sql)}}

\* the writes of the plan that are committed when the with-block of
\* get_connection is left
CommittedAtExit(calls, code) ==
    IF get_connection_exit(code).committed THEN WrittenSteps(calls) ELSE {}

\* an exception leaves the loop and the connection's with-block
PlanRaise(code) ==
    plan_run' = [plan_run EXCEPT !.pc = "done",
                                 !.code = get_connection_exit(code).code,
                                 !.committed =
                                    CommittedAtExit(plan_run.executor_calls,
                                                    code)]

\* after an existence check: "if entity_exists and plan_step.step_number <
\* len(query_plan.steps)" and "if next_step.depends_on_previous"
skip_next(entity_exists, k, steps) ==
    /\ entity_exists
    /\ k < Len(steps)
    /\ steps[k + 1].depends_on_previous

\* a regular step: "if query_steps_list and query_steps_list[-1].skipped and
\* plan_step.depends_on_previous"
skip_this_never(query_steps, plan_step) == FALSE

skip_this(query_steps, plan_step) ==
    /\ query_steps # << >>
    /\ query_steps[Len(query_steps)].skipped
    /\ plan_step.depends_on_previous

\* one iteration of "for plan_step in query_plan.steps" with
\* options.execute; db is what the database does with the statement and
\* entity_exists whether the COUNT it returns is above zero
PlanStep(db, entity_exists) ==
    LET r == plan_run
        k == r.pos
        plan_step == r.steps[k]
        v == validate(plan_step.sql, r.options.read_only, r.question, FALSE)
        e == execute(v.sql, db)
        executed == Append(r.query_steps,
                           QueryStep(k, v.sql, ResultOf(k, entity_exists), FALSE))
        calls == Append(r.executor_calls, [step |-> k, sql |-> v.sql])
        next_step == r.steps[k + 1]
    IN  /\ r.pc = "run"
        /\ r.options.execute
        /\ k <= Len(r.steps)
        /\ IF v.status # "ok"
           THEN PlanRaise(v.status)
           ELSE IF plan_step.check_existence
           THEN IF e # "ok"
                THEN PlanRaise(e)
                ELSE plan_run' =
                       [r EXCEPT
                          !.pos = k + 1,
                          !.executor_calls = calls,
                          !.query_steps =
                             IF skip_next(entity_exists, k, r.steps)
                             THEN Append(executed,
                                         QueryStep(k + 1, next_step.sql,
                                                   NoResult, TRUE))
                             ELSE executed]
           ELSE IF skip_this(r.query_steps, plan_step)
           THEN plan_run' = [r EXCEPT !.pos = k + 1]
           ELSE IF e # "ok"
           THEN PlanRaise(e)
           ELSE plan_run' = [r EXCEPT !.pos = k + 1,
                                      !.executor_calls = calls,
                                      !.query_steps = executed]
        /\ UNCHANGED << served, varsV, varsW, varsRest >>

\* options.execute is false: the plan is returned, no step is validated
PlanNotExecuted ==
    LET r == plan_run
    IN  /\ r.pc = "run"
        /\ ~r.options.execute
        /\ r.query_steps = << >>
        /\ plan_run' =
              [r EXCEPT !.pos = Len(r.steps) + 1,
                        !.query_steps =
                           [k \in 1..Len(r.steps) |->
                               QueryStep(k, r.steps[k].sql, NoResult, FALSE)]]
        /\ UNCHANGED << served, varsV, varsW, varsRest >>

\* after the loop: the main generated_sql and execution_result, and the
\* response
PlanRespond ==
    LET r == plan_run
        n == Len(r.query_steps)
    IN  /\ r.pc = "run"
        /\ r.pos > Len(r.steps)
        /\ plan_run' =
              [r EXCEPT
                 !.pc = "done",
                 !.code = "ok",
                 !.committed = CommittedAtExit(r.executor_calls, "ok"),
                 !.generated_sql = r.steps[Len(r.steps)].sql,
                 !.execution_result =
                    IF n > 0 /\ r.query_steps[n].execution_result # NoResult
                    THEN r.query_steps[n].execution_result
                    ELSE NoResult]
        /\ UNCHANGED << served, varsV, varsW, varsRest >>

InitP ==
    /\ QuietV /\ served = NotServed /\ QuietW /\ QuietRest
    /\ \E question \in Questions \ {NoQuestion}, options \in PlanOptions,
          steps \in Plans :
          plan_run = [NoPlanRun EXCEPT !.pc = "run", !.question = question,
                                       !.options = options, !.steps = steps,
                                       !.pos = 1]

NextP ==
    \/ \E db \in DbOutcomes, entity_exists \in BOOLEAN :
          PlanStep(db, entity_exists)
    \/ PlanNotExecuted
    \/ PlanRespond

SpecP == InitP /\ [][NextP]_vars

\* the positions of the steps the Executor ran, and of those reported skipped
ExecutedSteps == {plan_run.executor_calls[i].step : i \in 1..Len(plan_run.executor_calls)}
ReportedSkipped ==
    {plan_run.query_steps[i].step_number :
        i \in {j \in 1..Len(plan_run.query_steps) : plan_run.query_steps[j].skipped}}

PlanSucceeded ==
    plan_run.pc = "done" /\ plan_run.code = "ok" /\ plan_run.options.execute

\* a succeeded 3-step plan whose step 1 is an existence check that found
\* the entity, whose step 2 depends on the previous step and whose step 3
\* does not
ThreeStepPlanEntityExists ==
    /\ PlanSucceeded
    /\ Len(plan_run.steps) = 3
    /\ plan_run.steps[1].check_existence
    /\ plan_run.query_steps[1].execution_result.count_positive
    /\ plan_run.steps[2].depends_on_previous
    /\ ~plan_run.steps[3].depends_on_previous

C14_ReportsLastExecutedStep ==
    PlanSucceeded
    => LET last == CHOOSE k \in ExecutedSteps : \A j \in ExecutedSteps : j <= k
           call_of == CHOOSE i \in 1..Len(plan_run.executor_calls) :
                         plan_run.executor_calls[i].step = last
       IN  /\ plan_run.generated_sql
                \in {plan_run.steps[last].sql, plan_run.executor_calls[call_of].sql}
           /\ plan_run.execution_result.step = last

\* C28: the writes of a plan are committed only when the loop went through
\* every step and the with-block was left without an exception; when the
\* validation or the execution of a step fails, no write of an earlier step
\* is committed, and none is committed while the plan runs.
C28_PlanAllOrNothing ==
    /\ plan_run.pc = "run" => plan_run.committed = {}
    /\ plan_run.pc = "done"
       => IF plan_run.code = "ok"
          THEN /\ plan_run.pos > Len(plan_run.steps)
               /\ plan_run.committed = WrittenSteps(plan_run.executor_calls)
          ELSE plan_run.committed = {}

\* a plan whose first step wrote and whose later step failed
C28_Witness ==
    /\ plan_run.pc = "done"
    /\ plan_run.code # "ok"
    /\ 1 \in WrittenSteps(plan_run.executor_calls)
    /\ plan_run.pos > 1
    /\ plan_run.committed = {}

\* the steps the loop has passed without calling the Executor on them
PassedSteps == 1..(plan_run.pos - 1)
SkippedSteps == PassedSteps \ ExecutedSteps

\* the entries of the step list for the step at position k
EntriesOf(k) ==
    {plan_run.query_steps[i] :
        i \in {j \in 1..Len(plan_run.query_steps) :
                  plan_run.query_steps[j].step_number = k}}

\* the skip reasons the step list gives for the step at position k
SkipReasons(k) == {e.skip_reason : e \in {x \in EntriesOf(k) : x.skipped}}

\* C21: a step, regular or existence check, that depends on the previous
\* step and comes after a skipped step is not executed, and the step list
\* reports it skipped with the skip reason of the step before it.
C21_SkipPropagates ==
    plan_run.options.execute
    => \A k \in PassedSteps \ {1} :
          (plan_run.steps[k].depends_on_previous /\ (k - 1) \in SkippedSteps)
          => /\ k \notin ExecutedSteps
             /\ SkipReasons(k) # {}
             /\ SkipReasons(k) = SkipReasons(k - 1)

\* C22: an existence check that is not the last step is executed and its
\* result recorded; when its count is above zero the next step is not
\* executed and is reported skipped with "Entity already exists", whatever
\* its depends_on_previous flag, and when the count is zero the next step
\* is executed.
C22_ExistenceCheckSkipsNext ==
    plan_run.options.execute
    => \A k \in PassedSteps \ {Len(plan_run.steps)} :
          plan_run.steps[k].check_existence
          => /\ k \in ExecutedSteps
             /\ \E e \in EntriesOf(k) :
                   ~e.skipped /\ e.execution_result.step = k
             /\ (k + 1) \in PassedSteps
                => \A e \in {x \in EntriesOf(k) : ~x.skipped} :
                      IF e.execution_result.count_positive
                      THEN /\ (k + 1) \notin ExecutedSteps
                           /\ SkipReasons(k + 1) = {"Entity already exists"}
                      ELSE (k + 1) \in ExecutedSteps

\* =========================================================================
\* Write workflow, preview: /write/preview, handle_delete_user and
\* handle_batch_delete_users.  Each statement sent to the connection is one
\* step.
\* =========================================================================
\* _find_matching_users: LIMIT 10
MATCH_LIMIT == 10

OrderIds == 1..MaxRows

RECURSIVE SumOver(_, _)
SumOver(f, S) ==
    IF S = {} THEN 0
    ELSE LET x == CHOOSE y \in S : TRUE IN f[x] + SumOver(f, S \ {x})

\* SELECT COUNT(*) FROM orders WHERE user_id = :user_id
orders_of(user_id) == {o \in OrderIds : orders[o] = user_id}

\* _analyze_cascade_impact with the 1 for the user row left out
analyze_cascade_impact_without_user(user_id) ==
    LET orders_count == Cardinality(orders_of(user_id))
        items_count == SumOver(order_items, orders_of(user_id))
    IN  [user_id |-> user_id,
         orders_count |-> orders_count,
         order_items_count |-> items_count,
         total_records |-> orders_count + items_count,
         order_details |->
            {[order_id |-> o, items_in_order |-> order_items[o]] :
                o \in orders_of(user_id)}]

\* WriteOperationHandler._analyze_cascade_impact
analyze_cascade_impact(user_id) ==
    LET orders_count == Cardinality(orders_of(user_id))
        items_count == SumOver(order_items, orders_of(user_id))
    IN  [user_id |-> user_id,
         orders_count |-> orders_count,
         order_items_count |-> items_count,
         total_records |-> 1 + orders_count + items_count,
         order_details |->
            {[order_id |-> o, items_in_order |-> order_items[o]] :
                o \in orders_of(user_id)}]

\* WHERE clauses the model's AI client can answer with: the text, and the
\* users rows the clause selects
WhereSql ==
    { << "WHERE", "t", "=", "'bob'" >>,
      << "WHERE", "t", "=", "5", ";", "DROP", "t" >> }

\* the query text built around the clause by _find_matching_users and by
\* handle_batch_delete_users
matching_query(where_sql, limited) ==
    << "SELECT", "id", "FROM", "users" >> \o where_sql
    \o (IF limited THEN << "LIMIT", ToString(MATCH_LIMIT) >> ELSE << >>)

\* rows a statement with LIMIT n returns
LimitRows(rows, n) ==
    IF Cardinality(rows) <= n THEN rows
    ELSE CHOOSE S \in SUBSET rows : Cardinality(S) = n

\* a statement handed to connection.execute
Sent(sql) == [sql |-> sql]

\* the dictionary a handler returns
PreviewResult(phase, matches, has_impact, impact, requires_confirmation) ==
    [phase |-> phase, matches |-> matches, has_impact |-> has_impact,
     impact |-> impact, requires_confirmation |-> requires_confirmation,
     total_records |-> impact.total_records, code |-> "ok"]

\* preview_write_operation: any exception is answered with PREVIEW_FAILED
PreviewFailed ==
    [phase |-> "none", matches |-> {}, has_impact |-> FALSE,
     impact |-> NoImpact, requires_confirmation |-> FALSE,
     total_records |-> 0, code |-> "PREVIEW_FAILED"]

\* questions sent to /write/preview
PreviewQuestions ==
    { << "delete", "user", "bob" >>, << "delete", "user", "allen" >>,
      << "delete", "all", "users" >>, << "delete", "inactive", "users" >> }

\* keyword in question.lower(), for one word of the question: the words
\* that have the letters of the keyword in them
ContainsKeyword(word, keyword) ==
    \/ Lower(word) = keyword
    \/ keyword = "all" /\ Lower(word) = "allen"

\* any(keyword in request.question.lower() for keyword in ['all',
\* 'inactive', 'batch', 'multiple'])
is_batch_operation(question) ==
    \E keyword \in {"all", "inactive", "batch", "multiple"} :
        \E i \in 1..Len(question) : ContainsKeyword(question[i], keyword)

\* preview_write_operation receives a question, rents a connection with
\* get_connection, whose engine.begin() opens a transaction, and picks the
\* handler
PreviewBegin(question) ==
    /\ preview.pc = "none"
    /\ preview' = [NoPreview EXCEPT !.pc = "where", !.question = question,
                                   !.transaction = "open",
                                   !.batch = is_batch_operation(question)]
    /\ UNCHANGED << orders, order_items, varsV, varsQ, varsW, varsM,
                    varsC >>

\* _generate_where_clause: the AI client's answer has a WHERE clause that
\* selects the rows of matching
GenerateWhereClause(where_sql, matching) ==
    /\ preview.pc = "where"
    /\ preview' = [preview EXCEPT !.pc = "find",
                                  !.where_clause = [sql |-> where_sql,
                                                    rows |-> matching]]
    /\ UNCHANGED << orders, order_items, varsV, varsQ, varsW, varsM,
                    varsC >>

\* handle_delete_user, "Step 3: Handle match count": the phase for
\* len(matches)
match_phase_first_of_many(n) ==
    IF n = 0 THEN "error" ELSE "confirmation"

match_phase(n) ==
    IF n = 0 THEN "error"
    ELSE IF n = 1 THEN "confirmation"
    ELSE "disambiguation"

\* _find_matching_users, then the phase of handle_delete_user
FindMatchingUsers ==
    LET p == preview
        matches == LimitRows(p.where_clause.rows \cap users, MATCH_LIMIT)
        sent == Append(p.sent, Sent(matching_query(p.where_clause.sql, TRUE)))
        phase == match_phase(Cardinality(matches))
    IN  /\ p.pc = "find"
        /\ ~p.batch
        /\ preview' =
              IF phase = "error"
              THEN [p EXCEPT !.pc = "done", !.transaction = "committed", !.sent = sent,
                             !.result = PreviewResult("error", {}, FALSE,
                                                      NoImpact, FALSE)]
              ELSE IF phase = "confirmation"
              THEN [p EXCEPT !.pc = "impact", !.sent = sent,
                             !.matches = matches]
              ELSE [p EXCEPT !.pc = "done", !.transaction = "committed", !.sent = sent,
                             !.matches = matches,
                             !.result = PreviewResult("disambiguation", matches,
                                                      FALSE, NoImpact, FALSE)]
        /\ UNCHANGED << orders, order_items, varsV, varsQ, varsW, varsM,
                    varsC >>

\* handle_delete_user, exactly one match: the impact of that user
AnalyzeSingleImpact ==
    LET p == preview
        user == CHOOSE u \in p.matches : \A o \in p.matches : u <= o
        impact == analyze_cascade_impact(user)
    IN  /\ p.pc = "impact"
        /\ preview' = [p EXCEPT !.pc = "done", !.transaction = "committed", !.impact = impact,
                                !.result = PreviewResult("confirmation",
                                                         p.matches, TRUE,
                                                         impact, TRUE)]
        /\ UNCHANGED << orders, order_items, varsV, varsQ, varsW, varsM,
                    varsC >>

\* handle_batch_delete_users: all matching users, no LIMIT
BatchFindMatching ==
    LET p == preview
        matches == p.where_clause.rows \cap users
        sent == Append(p.sent, Sent(matching_query(p.where_clause.sql, FALSE)))
    IN  /\ p.pc = "find"
        /\ p.batch
        /\ preview' =
              IF Cardinality(matches) = 0
              THEN [p EXCEPT !.pc = "done", !.transaction = "committed", !.sent = sent,
                             !.result = PreviewResult("error", {}, FALSE,
                                                      NoImpact, FALSE)]
              ELSE [p EXCEPT !.pc = "batch_impact", !.sent = sent,
                             !.matches = matches, !.todo = matches]
        /\ UNCHANGED << orders, order_items, varsV, varsQ, varsW, varsM,
                    varsC >>

\* one iteration of "for user in matches", in row order
BatchAnalyzeImpact ==
    LET p == preview
        user == CHOOSE u \in p.todo : \A o \in p.todo : u <= o
        impact == analyze_cascade_impact(user)
    IN  /\ p.pc = "batch_impact"
        /\ p.todo # {}
        /\ preview' =
              [p EXCEPT !.todo = @ \ {user},
                        !.total_orders = @ + impact.orders_count,
                        !.total_items = @ + impact.order_items_count,
                        !.user_impacts =
                           @ \cup {[user_id |-> user,
                                    orders |-> impact.orders_count,
                                    items |-> impact.order_items_count]}]
        /\ UNCHANGED << orders, order_items, varsV, varsQ, varsW, varsM,
                    varsC >>

\* after the loop: total_records and the batch_confirmation dictionary
BatchReturn ==
    LET p == preview
        total_records ==
            Cardinality(p.matches) + p.total_orders + p.total_items
    IN  /\ p.pc = "batch_impact"
        /\ p.todo = {}
        /\ preview' =
              [p EXCEPT !.pc = "done", !.transaction = "committed",
                        !.result =
                           [PreviewResult("batch_confirmation", p.matches,
                                          FALSE, NoImpact, FALSE)
                            EXCEPT !.total_records = total_records]]
        /\ UNCHANGED << orders, order_items, varsV, varsQ, varsW, varsM,
                    varsC >>

\* the AI answer has no WHERE clause, or a statement raises
PreviewFail ==
    /\ preview.pc \in {"where", "find", "impact", "batch_impact"}
    /\ preview' = [preview EXCEPT !.pc = "done",
                                  !.transaction = "rolled_back",
                                  !.result = PreviewFailed]
    /\ UNCHANGED << orders, order_items, varsV, varsQ, varsW, varsM,
                    varsC >>

InitR ==
    /\ QuietV /\ QuietQ /\ QuietM /\ QuietC
    /\ users \in SUBSET (1..MaxRows)
    /\ audit_log = [id \in TargetIds |-> 0]
    /\ deleted = [id \in TargetIds |-> 0]
    /\ call = [w \in Workers |-> IdleCall]
    /\ orders \in [OrderIds -> 0..MaxRows]
    /\ order_items \in [OrderIds -> 0..MaxItems]
    /\ preview = NoPreview

NextR ==
    \/ \E question \in PreviewQuestions : PreviewBegin(question)
    \/ \E where_sql \in WhereSql, matching \in SUBSET (1..MaxRows) :
          GenerateWhereClause(where_sql, matching)
    \/ FindMatchingUsers
    \/ AnalyzeSingleImpact
    \/ BatchFindMatching
    \/ BatchAnalyzeImpact
    \/ BatchReturn
    \/ PreviewFail

SpecR == InitR /\ [][NextR]_vars

\* total_records reconciles with the child counts of the same impact
Reconciles(impact) ==
    impact.total_records = 1 + impact.orders_count + impact.order_items_count

\* C15: every impact a preview returns has total_records = 1 + orders_count
\* + order_items_count, and the total_records of a batch preview is the sum
\* of the total_records of the impacts of its matches.
C15_TotalRecordsReconciles ==
    /\ preview.result.phase = "confirmation"
       => /\ Reconciles(preview.result.impact)
          /\ preview.result.impact.orders_count
                = Cardinality({o \in OrderIds : orders[o] \in preview.matches})
    /\ preview.result.phase = "batch_confirmation"
       => /\ \A i \in preview.user_impacts :
                 i.orders + i.items + 1 = analyze_cascade_impact(i.user_id).total_records
          /\ preview.result.total_records =
                SumOver([u \in preview.matches |->
                            analyze_cascade_impact(u).total_records],
                        preview.matches)

C15_Witness ==
    /\ preview.result.phase = "batch_confirmation"
    /\ Cardinality(preview.matches) = 2
    /\ preview.total_orders > 0
    /\ preview.total_items > 0

C17_UntrustedTextValidated ==
    \A i \in 1..Len(preview.sent) :
        /\ is_safe(preview.sent[i].sql, TRUE, FALSE) = << >>
        /\ validate(preview.sent[i].sql, FALSE, NoQuestion, FALSE).status = "ok"

\* the question names several users: one of its words is all, inactive,
\* batch or multiple
ImpliesMultiple(question) ==
    \E i \in 1..Len(question) :
        question[i] \in {"all", "inactive", "batch", "multiple"}

\* C24: a preview is handled by handle_batch_delete_users exactly when its
\* question implies several targets; the batch handler answers zero matches
\* with phase error and otherwise returns batch_confirmation with every
\* matching row and the impact summed over them, never disambiguation or
\* confirmation.
C24_BatchRouting ==
    /\ preview.pc # "none" => (preview.batch <=> ImpliesMultiple(preview.question))
    /\ (preview.pc = "done" /\ preview.batch /\ preview.result.code = "ok")
       => LET matching == preview.where_clause.rows \cap users
              r == preview.result
          IN  IF matching = {}
              THEN r.phase = "error"
              ELSE /\ r.phase = "batch_confirmation"
                   /\ r.matches = matching
                   /\ r.total_records =
                         SumOver([u \in matching |->
                                     analyze_cascade_impact(u).total_records],
                                 matching)

\* C25: the preview sends no INSERT, UPDATE or DELETE, and its connection
\* has no transaction: none is opened for it, and none is committed or
\* rolled back when it ends.
C25_PreviewHoldsNoTransaction ==
    /\ \A i \in 1..Len(preview.sent) :
          \A k \in 1..Len(preview.sent[i].sql) :
              Upper(preview.sent[i].sql[k]) \notin {"INSERT", "UPDATE", "DELETE"}
    /\ preview.transaction = "none"

\* =========================================================================
\* Write workflow: /write/execute and WriteOperationHandler.execute_delete_user
\* Each request runs on its own connection and transaction; every awaited
\* statement is a step, so the requests of different workers interleave.
\* A statement reads the committed rows; a DELETE waits while another open
\* transaction has deleted the same row and not yet finished.
\* =========================================================================
\* how the transaction opened by get_connection / conn.begin() ends for a
\* call: what it adds to audit_log and whether its DELETE takes effect
transaction_exit_keeping_audit(c, exception) ==
    [audit |-> IF c.audit_written THEN 1 ELSE 0,
     delete |-> ~exception /\ c.row_deleted]

transaction_exit(c, exception) ==
    IF exception
    THEN [audit |-> 0, delete |-> FALSE]
    ELSE [audit |-> IF c.audit_written THEN 1 ELSE 0, delete |-> c.row_deleted]

\* execute_delete_user: "if not user_row" after the SELECT by id
user_row_check_omitted(user_row) == FALSE

user_not_found(user_row) == ~user_row

\* the call leaves the with-blocks: commit, or roll back on an exception
Finish(w, c, exception, status) ==
    LET exit == transaction_exit(c, exception)
        id == c.user_id
    IN  /\ audit_log' = [audit_log EXCEPT ![id] = @ + exit.audit]
        /\ users' = IF exit.delete THEN users \ {id} ELSE users
        /\ deleted' = [deleted EXCEPT ![id] = @ + (IF exit.delete THEN 1 ELSE 0)]
        /\ call' = [call EXCEPT ![w] =
                       [c EXCEPT !.pc = "idle", !.status = status,
                                 !.audit_written = FALSE, !.row_deleted = FALSE,
                                 !.impact = NoImpact]]

\* execute_confirmed_write_operation receives a request, rents a connection
\* and opens the transaction
ExecuteBegin(w, user_id, confirmed) ==
    /\ call[w].pc = "idle"
    /\ call' = [call EXCEPT ![w] =
                   [IdleCall EXCEPT !.pc = "select", !.user_id = user_id,
                                    !.confirmed = confirmed, !.status = "running"]]
    /\ UNCHANGED << users, audit_log, deleted, varsV, varsQ, varsRest >>

\* SELECT * FROM users WHERE id = :user_id, then the not-found check
ExecuteSelectUser(w) ==
    LET c == call[w]
        user_row == c.user_id \in users
        seen == [c EXCEPT !.selected = TRUE, !.user_row = user_row]
    IN  /\ c.pc = "select"
        /\ IF user_not_found(user_row)
           THEN Finish(w, seen, TRUE, "not_found")
           ELSE /\ call' = [call EXCEPT ![w] = [seen EXCEPT !.pc = "impact"]]
                /\ UNCHANGED << users, audit_log, deleted >>
        /\ UNCHANGED << varsV, varsQ, varsRest >>

\* _analyze_cascade_impact: three reads
ExecuteAnalyzeImpact(w) ==
    /\ call[w].pc = "impact"
    /\ call' = [call EXCEPT ![w].pc = "audit",
                            ![w].impact = analyze_cascade_impact(call[w].user_id)]
    /\ UNCHANGED << users, audit_log, deleted, varsV, varsQ, varsRest >>

\* _log_to_audit: INSERT INTO audit_log, inside the transaction
ExecuteLogToAudit(w) ==
    /\ call[w].pc = "audit"
    /\ call' = [call EXCEPT ![w].pc = "delete", ![w].audit_written = TRUE,
                            ![w].issued = @ \cup {"audit"}]
    /\ UNCHANGED << users, audit_log, deleted, varsV, varsQ, varsRest >>

\* DELETE FROM users WHERE id = :user_id; rowcount is the rows it removed
ExecuteDelete(w) ==
    LET c == call[w]
        hit == c.user_id \in users
    IN  /\ c.pc = "delete"
        /\ \A o \in Workers \ {w} :
              ~(call[o].row_deleted /\ call[o].user_id = c.user_id)
        /\ call' = [call EXCEPT ![w].pc = "commit", ![w].row_deleted = hit,
                                ![w].deleted_count = IF hit THEN 1 ELSE 0,
                                ![w].issued = @ \cup {"delete"}]
        /\ UNCHANGED << users, audit_log, deleted, varsV, varsQ, varsRest >>

\* the handler returns and both with-blocks commit
ExecuteCommit(w) ==
    /\ call[w].pc = "commit"
    /\ Finish(w, call[w], FALSE, "success")
    /\ UNCHANGED << varsV, varsQ, varsRest >>

\* any awaited statement (or the begin or the commit) raises: rollback, and
\* the endpoint answers WRITE_OPERATION_FAILED
ExecuteFail(w) ==
    /\ call[w].pc \in {"select", "impact", "audit", "delete", "commit"}
    /\ Finish(w, call[w], TRUE, "WRITE_OPERATION_FAILED")
    /\ UNCHANGED << varsV, varsQ, varsRest >>

InitW == QuietV /\ QuietQ /\ QuietW /\ QuietRest

NextW ==
    \/ \E w \in Workers, user_id \in TargetIds, confirmed \in BOOLEAN :
          ExecuteBegin(w, user_id, confirmed)
    \/ \E w \in Workers : ExecuteSelectUser(w)
    \/ \E w \in Workers : ExecuteAnalyzeImpact(w)
    \/ \E w \in Workers : ExecuteLogToAudit(w)
    \/ \E w \in Workers : ExecuteDelete(w)
    \/ \E w \in Workers : ExecuteCommit(w)
    \/ \E w \in Workers : ExecuteFail(w)

SpecW == InitW /\ [][NextW]_vars

C7_AuditIffDeleteCommitted ==
    \A id \in TargetIds :
        /\ (audit_log[id] > 0) <=> (deleted[id] > 0)
        /\ (deleted[id] > 0) <=> (id \in UserIds \ users)

\* a call failed after its audit insert and before its DELETE, and the
\* committed state has neither the record nor the delete
C7_Witness ==
    \E w \in Workers :
        /\ call[w].pc = "idle"
        /\ call[w].status = "WRITE_OPERATION_FAILED"
        /\ call[w].issued = {"audit"}
        /\ audit_log[call[w].user_id] = 0
        /\ call[w].user_id \in users

\* C8: a call whose target id has no row in users ends with not-found
\* having issued neither the audit insert nor the DELETE, and an id that
\* never had a row has no AuditRecord and no delete.
C8_NotFoundBeforeMutation ==
    /\ \A w \in Workers :
          (call[w].selected /\ ~call[w].user_row)
          => /\ call[w].status = "not_found"
             /\ call[w].pc = "idle"
             /\ call[w].issued = {}
    /\ \A id \in TargetIds \ UserIds : audit_log[id] = 0 /\ deleted[id] = 0

C8_Witness ==
    \E w \in Workers :
        /\ call[w].status = "not_found"
        /\ call[w].user_id \notin UserIds
        /\ call[w].confirmed

InitF == InitW

NextF == NextR \/ NextW

SpecF == InitF /\ [][NextF]_vars

MaxEngines == 3

DbIds == {"db1", "db2"}
\* the DatabaseConfig values a caller passes
Configs == {"config1", "config2"}

\* dict.keys(), key in dict, dict[key]
Keys(d) == {d[i].key : i \in DOMAIN d}
Get(d, key) == (CHOOSE i \in DOMAIN d : d[i].key = key)
Value(d, key) == d[Get(d, key)].value
\* dict[key] = value: a present key keeps its place, a new one goes last
Put(d, key, value) ==
    IF key \in Keys(d)
    THEN [d EXCEPT ![Get(d, key)] = [key |-> key, value |-> value]]
    ELSE Append(d, [key |-> key, value |-> value])
\* del dict[key]
Del(d, key) == SelectSeq(d, LAMBDA item : item.key # key)
\* the default is dropped instead of moved
FirstKeyNone(d) == None

\* next(iter(dict.keys()), None)
FirstKey(d) == IF d = << >> THEN None ELSE d[1].key

\* _save_databases: the file gets the default id and every config, and a
\* failure to write is logged and swallowed
save_databases(c, d, written) ==
    IF written THEN [default_db_id |-> d, databases |-> c] ELSE saved

ManagerCall(op, db_id, raised) ==
    [op |-> op, db_id |-> db_id, raised |-> raised,
     before |-> Registry(engines, configs, default_db_id)]

\* if db_id in self._engines, with the check left out
already_registered_never(registry_engines, db_id) == FALSE

\* if db_id in self._engines
already_registered(registry_engines, db_id) ==
    db_id \in Keys(registry_engines)

\* register_database(db_id, config): created says whether
\* create_async_engine returned an engine, written whether the file was
\* written
RegisterDatabase(db_id, config, created, written) ==
    IF already_registered(engines, db_id) \/ ~created
    THEN /\ manager_call' =
              ManagerCall("register_database", db_id,
                          "DATABASE_CONFIGURATION_ERROR")
         /\ UNCHANGED << engines, configs, default_db_id, engine_count,
                         saved >>
    ELSE /\ engine_count < MaxEngines
         /\ engine_count' = engine_count + 1
         /\ engines' = Put(engines, db_id, engine_count + 1)
         /\ configs' = Put(configs, db_id, config)
         /\ default_db_id' =
              IF default_db_id = None THEN db_id ELSE default_db_id
         /\ saved' =
              save_databases(configs', default_db_id', written)
         /\ manager_call' = ManagerCall("register_database", db_id, "ok")

\* disconnect_database(db_id): disposed says whether engine.dispose()
\* returned
DisconnectDatabase(db_id, disposed, written) ==
    IF db_id \notin Keys(engines)
    THEN /\ manager_call' =
              ManagerCall("disconnect_database", db_id,
                          "DATABASE_CONNECTION_ERROR")
         /\ UNCHANGED << engines, configs, default_db_id, engine_count,
                         saved >>
    ELSE IF ~disposed
    THEN /\ manager_call' =
              ManagerCall("disconnect_database", db_id, "Exception")
         /\ UNCHANGED << engines, configs, default_db_id, engine_count,
                         saved >>
    ELSE /\ engines' = Del(engines, db_id)
         /\ configs' = Del(configs, db_id)
         /\ default_db_id' =
              IF default_db_id = db_id THEN FirstKey(engines')
              ELSE default_db_id
         /\ saved' = save_databases(configs', default_db_id', written)
         /\ manager_call' = ManagerCall("disconnect_database", db_id, "ok")
         /\ UNCHANGED engine_count

\* set_default_database(db_id)
SetDefaultDatabase(db_id, written) ==
    IF db_id \notin Keys(engines)
    THEN /\ manager_call' =
              ManagerCall("set_default_database", db_id,
                          "DATABASE_CONNECTION_ERROR")
         /\ UNCHANGED << engines, configs, default_db_id, engine_count,
                         saved >>
    ELSE /\ default_db_id' = db_id
         /\ saved' = save_databases(configs, db_id, written)
         /\ manager_call' = ManagerCall("set_default_database", db_id, "ok")
         /\ UNCHANGED << engines, configs, engine_count >>

\* close(): every engine is disposed and the three fields are cleared; the
\* file is left as it is
Close(disposed) ==
    IF engines # << >> /\ ~disposed
    THEN /\ manager_call' = ManagerCall("close", None, "Exception")
         /\ UNCHANGED << engines, configs, default_db_id, engine_count,
                         saved >>
    ELSE /\ engines' = << >>
         /\ configs' = << >>
         /\ default_db_id' = None
         /\ manager_call' = ManagerCall("close", None, "ok")
         /\ UNCHANGED << engine_count, saved >>

\* POST /databases: the endpoint refuses an id the manager lists, calls the
\* manager's register_database, then opens a connection and runs SELECT 1;
\* connected says whether that test went through. Every exception but its
\* own 409 is answered with DATABASE_REGISTRATION_FAILED, and nothing is
\* undone on the way out.
RegisterDatabaseEndpoint(db_id, config, created, written, connected) ==
    IF db_id \in Keys(engines)
    THEN /\ manager_call' =
              ManagerCall("POST /databases", db_id,
                          "DATABASE_ALREADY_EXISTS")
         /\ UNCHANGED << engines, configs, default_db_id, engine_count,
                         saved >>
    ELSE IF ~created
    THEN /\ manager_call' =
              ManagerCall("POST /databases", db_id,
                          "DATABASE_REGISTRATION_FAILED")
         /\ UNCHANGED << engines, configs, default_db_id, engine_count,
                         saved >>
    ELSE /\ engine_count < MaxEngines
         /\ engine_count' = engine_count + 1
         /\ engines' = Put(engines, db_id, engine_count + 1)
         /\ configs' = Put(configs, db_id, config)
         /\ default_db_id' =
              IF default_db_id = None THEN db_id ELSE default_db_id
         /\ saved' =
              save_databases(configs', default_db_id', written)
         /\ manager_call' =
              ManagerCall("POST /databases", db_id,
                          IF connected THEN "ok"
                          ELSE "DATABASE_REGISTRATION_FAILED")

InitM == QuietV /\ QuietQ /\ QuietW /\ QuietRest

NextM ==
    \/ \E db_id \in DbIds, config \in Configs, created, written \in BOOLEAN :
          /\ RegisterDatabase(db_id, config, created, written)
          /\ UNCHANGED << varsV, varsQ, varsW, varsR, varsC >>
    \/ \E db_id \in DbIds, disposed, written \in BOOLEAN :
          /\ DisconnectDatabase(db_id, disposed, written)
          /\ UNCHANGED << varsV, varsQ, varsW, varsR, varsC >>
    \/ \E db_id \in DbIds, written \in BOOLEAN :
          /\ SetDefaultDatabase(db_id, written)
          /\ UNCHANGED << varsV, varsQ, varsW, varsR, varsC >>
    \/ \E disposed \in BOOLEAN :
          /\ Close(disposed)
          /\ UNCHANGED << varsV, varsQ, varsW, varsR, varsC >>
    \/ \E db_id \in DbIds, config \in Configs,
          created, written, connected \in BOOLEAN :
          /\ RegisterDatabaseEndpoint(db_id, config, created, written,
                                      connected)
          /\ UNCHANGED << varsV, varsQ, varsW, varsR, varsC >>

SpecM == InitM /\ [][NextM]_vars

\* C20: a register_database call that names an id already in the registry
\* raises the configuration error, and the engines, the configurations and
\* the default database id are what they were before the call.
C20_DuplicateRegisterRejected ==
    (/\ manager_call.op = "register_database"
     /\ manager_call.db_id \in Keys(manager_call.before.engines))
    => /\ manager_call.raised = "DATABASE_CONFIGURATION_ERROR"
       /\ Registry(engines, configs, default_db_id) = manager_call.before

\* a second database was registered over the default one, and registering
\* the second id again was refused
C20_Witness ==
    /\ manager_call.op = "register_database"
    /\ manager_call.db_id \in Keys(manager_call.before.engines)
    /\ manager_call.db_id # default_db_id
    /\ Len(engines) = 2
    /\ manager_call.raised = "DATABASE_CONFIGURATION_ERROR"

\* C29: after any sequence of manager calls, succeeding or failing, the
\* engine ids are the config ids, the default database id is unset or a
\* registered id, and it is unset exactly when nothing is registered; the
\* first database registered became the default, and disconnecting the
\* default moved it to a database that remains.
C29_RegistryConsistent ==
    /\ Keys(engines) = Keys(configs)
    /\ default_db_id = None \/ default_db_id \in Keys(engines)
    /\ default_db_id = None <=> Keys(engines) = {}
    /\ (/\ manager_call.op = "register_database"
        /\ manager_call.raised = "ok"
        /\ manager_call.before.engines = << >>)
       => default_db_id = manager_call.db_id
    /\ (/\ manager_call.op = "disconnect_database"
        /\ manager_call.raised = "ok"
        /\ manager_call.before.default_db_id = manager_call.db_id
        /\ Keys(manager_call.before.engines) # {manager_call.db_id})
       => /\ default_db_id \in Keys(engines)
          /\ default_db_id # manager_call.db_id

\* the default database was disconnected while another one was registered,
\* and the other one is the default now
C29_Witness ==
    /\ manager_call.op = "disconnect_database"
    /\ manager_call.raised = "ok"
    /\ manager_call.before.default_db_id = manager_call.db_id
    /\ Len(manager_call.before.engines) = 2
    /\ Keys(engines) = {default_db_id}
    /\ Keys(configs) = {default_db_id}

\* C30: when POST /databases reports a failure, the engines, the
\* configurations and the default database id are what they were before the
\* request, and an id that was free before it is free afterwards, so that it
\* can be registered again.
C30_FailedRegistrationLeavesRegistry ==
    (/\ manager_call.op = "POST /databases"
     /\ manager_call.raised # "ok")
    => /\ Registry(engines, configs, default_db_id) = manager_call.before
       /\ default_db_id = manager_call.before.default_db_id
       /\ manager_call.db_id \notin Keys(manager_call.before.engines)
          => ~already_registered(engines, manager_call.db_id)

\* ------------------------------------------- connections and the timeout
\* The pool and the connection are SQLAlchemy's.  The source rents a
\* connection with engine.begin() and awaits connection.execute() under
\* asyncio.wait_for; what the library does at these points is stated in the
\* three definitions below.

\* engine.begin(), entry: the pool hands out a connection it holds, and
\* opens a new one only when it holds none
checkout(c) ==
    \/ conns[c].state = "idle"
    \/ /\ conns[c].state = "unopened"
       /\ \A other \in ConnIds : conns[other].state # "idle"

\* connection.execute() under asyncio.wait_for: on expiry the awaiting
\* coroutine is cancelled, and the engine invalidates a connection whose
\* execute ends with an exception that is not an Exception, as
\* asyncio.CancelledError is
after_statement(state, raised) ==
    IF raised = "QUERY_TIMEOUT" THEN "invalidated" ELSE state

\* engine.begin(), exit: the connection goes back to the pool, and an
\* invalidated one is closed instead
checkin(state) == IF state = "invalidated" THEN "discarded" ELSE "idle"

\* async with db_manager.get_connection(...) as conn
GetConnection(w, c) ==
    /\ ops[w].pc = "idle"
    /\ checkout(c)
    /\ conns' =
         [conns EXCEPT ![c].state = "rented",
                       ![c].reused = conns[c].reused \/ conns[c].timed_out]
    /\ ops' =
         [ops EXCEPT ![w] =
             [NoOp EXCEPT !.pc = "body", !.conn = c,
                          !.discarded_before =
                              {d \in ConnIds : conns[d].state = "discarded"}]]
    /\ UNCHANGED << varsV, varsQ, varsW, varsR, varsM >>

\* await executor.execute(conn, sql) in the body of the with-block: an
\* exception leaves the block, a result is followed by the next step of a
\* plan when there is one
ExecutorExecute(w, sql, db, more) ==
    LET c == ops[w].conn
        raised == execute(sql, db)
    IN /\ ops[w].pc = "body"
       /\ conns' =
            [conns EXCEPT
                ![c].state = after_statement(conns[c].state, raised),
                ![c].reused = conns[c].reused \/ conns[c].timed_out,
                ![c].timed_out = conns[c].timed_out \/ db = "timeout"]
       /\ ops' =
            [ops EXCEPT ![w].db = db, ![w].raised = raised,
                        ![w].pc =
                            IF raised = "ok" /\ more THEN "body" ELSE "exit"]
       /\ UNCHANGED << varsV, varsQ, varsW, varsR, varsM >>

\* the end of the with-block
ReleaseConnection(w) ==
    LET c == ops[w].conn
    IN /\ ops[w].pc = "exit"
       /\ conns' = [conns EXCEPT ![c].state = checkin(conns[c].state)]
       /\ ops' =
            [ops EXCEPT ![w].pc = "idle",
                        ![w].code = get_connection_exit(ops[w].raised).code]
       /\ UNCHANGED << varsV, varsQ, varsW, varsR, varsM >>

InitC == QuietV /\ QuietQ /\ QuietW /\ QuietRest

NextC ==
    \/ \E w \in Workers, c \in ConnIds : GetConnection(w, c)
    \/ \E w \in Workers, db \in DbOutcomes, more \in BOOLEAN,
          sql \in {<< "SELECT", "t" >>, << "DELETE", "t" >>} :
          ExecutorExecute(w, sql, db, more)
    \/ \E w \in Workers : ReleaseConnection(w)

SpecC == InitC /\ [][NextC]_vars

====
